---- MODULE Spec2Model ----
(***************************************************************************)
(* Model of example/vercel_agent.py: the AgentVMClient bridge client       *)
(* (start / exec / stop over a child process speaking line-delimited JSON) *)
(* and the run_agent tool loop that drives it.                             *)
(*                                                                         *)
(* Two specifications share the client operations:                         *)
(*   SpecClient  an arbitrary single-threaded caller of start/exec/stop    *)
(*   Spec        the run_agent program                                     *)
(* and two apply a pure part of the program to a bounded set of inputs:    *)
(*   SpecOutcome exec's handling of a response line                        *)
(*   SpecContent the formatting of a command result                        *)
(* The child process and the completion endpoint are external: what they   *)
(* answer is chosen nondeterministically at each blocking read or call.    *)
(***************************************************************************)
EXTENDS Integers, Sequences, FiniteSets, TLC

VARIABLES
    process,     \* self.process: 0 is None, otherwise an index into children
    children,    \* every child process launched so far, in launch order
    op,          \* where the client call in progress stands: "none" (no call),
                 \* "start_read", "start_check" (start's loop), "exec" (exec's read)
    line,        \* start's local variable line; NoLine outside start's loop
    nread,       \* lines start has read in its loop so far; 0 outside the loop
    exc,         \* the exception the last client call / program step raised, or NoExc
    ret,         \* the value the last successful exec returned, or NoResult
    pc,          \* position of the caller (run_agent's control point)
    apiKey,      \* os.environ.get("OPENAI_API_KEY") is truthy
    messages,    \* run_agent's conversation
    step,        \* run_agent's step counter
    pending,     \* message.tool_calls of the response being processed
    idx,         \* index into pending of the next tool call (the for loop)
    answer,      \* what run_agent printed as the agent response, or NoAnswer
    caught,      \* the exception run_agent's handler caught, or NoExc
    issued,      \* number of tool invocations the endpoint has returned so far
    llmCalls,    \* number of completion calls made
    sent,        \* the messages argument of the latest completion call
    stopCalls,   \* number of calls of stop
    nops,        \* number of client calls made by the caller of SpecClient
    startCalls,  \* number of calls of start
    lastCall,    \* the caller's latest client call: "none", "start", "exec", "stop"
    prevCall,    \* the caller's client call before that
    arg,         \* the input a pure function of the program is applied to
    out          \* <<its value>> once it has been applied, <<>> before

cvars == <<process, children, op, line, nread, exc, ret>>
avars == <<pc, apiKey, messages, step, pending, idx, answer, caught, issued, llmCalls,
           sent>>
hvars == <<nops, lastCall, prevCall, arg, out>>
vars  == <<process, children, op, line, nread, exc, ret, pc, apiKey, messages, step,
           pending, idx, answer, caught, issued, llmCalls, stopCalls, startCalls,
           nops, lastCall, prevCall, sent, arg, out>>

----------------------------------------------------------------------------
(* Bounds of the model *)

MaxChildren == 2        \* child processes launched by one caller
MaxStartLines == 2      \* lines a child prints before READY or end of stream
MaxOps == 5             \* client calls made by the caller of SpecClient
MaxCallsPerResponse == 2 \* tool invocations in one completion response
MaxTotalCalls == 5      \* tool invocations over one run of run_agent

(* Program constants *)

MAX_STEPS == 5

----------------------------------------------------------------------------
(* Text: a line is a sequence of characters; the empty sequence is what    *)
(* readline returns at end of stream.                                      *)

EOF == <<>>
NoLine == <<"-">>
NL == <<"\n">>
SP == <<" ">>
READY == <<"R", "E", "A", "D", "Y">>
Whitespace == {" ", "\t", "\n", "\r"}

RECURSIVE LStrip(_)
LStrip(s) == IF s # <<>> /\ Head(s) \in Whitespace THEN LStrip(Tail(s)) ELSE s

RECURSIVE RStrip(_)
RStrip(s) ==
    IF s # <<>> /\ s[Len(s)] \in Whitespace
    THEN RStrip(SubSeq(s, 1, Len(s) - 1))
    ELSE s

Strip(s) == RStrip(LStrip(s))

(* Lines a child may print while it boots. *)
StartLines ==
    { READY \o NL,
      SP \o READY \o NL,
      READY \o SP \o NL,
      READY \o <<"\r", "\n">>,
      READY,
      NL,
      <<"b", "o", "o", "t", "\n">>,
      <<"R", "E", "A", "D", "\n">>,
      READY \o <<"!", "\n">>,
      <<"R", " ", "E", "A", "D", "Y", "\n">> }

----------------------------------------------------------------------------
(* Values *)

NoExc == [type |-> "none", msg |-> <<>>]
RuntimeError(m) == [type |-> "RuntimeError", msg |-> m]
OtherError(t) == [type |-> t, msg |-> <<>>]

NotStartedMsg == <<"VM not started">>
StartupMsg == <<"VM process exited unexpectedly">>
ClosedMsg == <<"VM closed connection">>

NoResult == [stdout |-> <<>>, stderr |-> <<>>, exitCode |-> -1]
Results ==
    { [stdout |-> <<"o", "u", "t">>, stderr |-> <<>>, exitCode |-> 0],
      [stdout |-> <<"o", "u", "t">>, stderr |-> <<"e", "r", "r">>, exitCode |-> 2] }

NoAnswer == [printed |-> FALSE, text |-> <<>>]

(* A response line of the child, as json.loads sees it: json = FALSE is a  *)
(* line that is not JSON; hasResult / hasError say whether the key exists. *)
Resp(st, hr, r, he, e) ==
    [json |-> TRUE, status |-> st, hasResult |-> hr, result |-> r,
     hasError |-> he, error |-> e]

RespLines ==
    { Resp("ok", TRUE, r, FALSE, "") : r \in Results }
    \cup { Resp("ok", FALSE, NoResult, FALSE, ""),
           Resp("error", FALSE, NoResult, TRUE, "boom"),
           Resp("error", FALSE, NoResult, FALSE, ""),
           Resp("busy", TRUE, CHOOSE r \in Results : r.exitCode = 0, TRUE, "boom"),
           [json |-> FALSE, status |-> "", hasResult |-> FALSE, result |-> NoResult,
            hasError |-> FALSE, error |-> ""] }

ExecRequest(command) == [cmd |-> "exec", command |-> command]
StopRequest == [cmd |-> "stop", command |-> ""]

(* A child process as the client sees it.                                  *)
(*   state    "running", "exited" (on its own) or "killed" (by kill())     *)
(*   inOpen   the child still reads its standard input                     *)
(*   outOpen  the child's standard output has not reached end of stream    *)
(*   stdin    the request lines written to it, in order                    *)
(*   ready    start has returned normally on it                            *)
(*   nresp    response lines read from it by exec                          *)
(*   nclosed  reads of exec on it that met end of stream                   *)
NewChild ==
    [state |-> "running", inOpen |-> TRUE, outOpen |-> TRUE, stdin |-> <<>>,
     ready |-> FALSE, nresp |-> 0, nclosed |-> 0]

Exited(c) == [c EXCEPT !.state = IF c.state = "running" THEN "exited" ELSE c.state,
                       !.inOpen = FALSE]

(* What a readline on the child's output can return: any line the child    *)
(* chooses to print, or end of stream, which is final.  End of stream says *)
(* that the child has closed its output; whether it has also exited shows  *)
(* at the next write.                                                      *)
ReadEnds(c) == { [c EXCEPT !.outOpen = FALSE] }

(* What a write + flush on the child's input can do: it succeeds while the *)
(* child is running and reads its input, and it raises BrokenPipeError     *)
(* when the child has exited or closed its input (now or earlier).         *)
CanWrite(c) == c.state = "running" /\ c.inOpen
WriteFails(c) ==
    IF CanWrite(c) THEN { Exited(c), [c EXCEPT !.inOpen = FALSE] } ELSE { c }

----------------------------------------------------------------------------
(* AgentVMClient *)

(* Faulty sentinel test: a prefix match. *)
IsReady_Prefix(l) ==
    Len(Strip(l)) >= Len(READY) /\ SubSeq(Strip(l), 1, Len(READY)) = READY

(* start, line 36: the test for the READY sentinel. *)
IsReady(l) == Strip(l) = READY

(* start, lines 21-29: Popen launches the child and stores the handle; if  *)
(* Popen raises the handle is left as it was.                              *)
Start_Popen ==
    /\ op = "none"
    /\ Len(children) < MaxChildren
    /\ startCalls' = startCalls + 1
    /\ \/ /\ children' = Append(children, NewChild)
          /\ process' = Len(children) + 1
          /\ op' = "start_read"
          /\ exc' = NoExc
       \/ /\ exc' = OtherError("OSError")
          /\ UNCHANGED <<process, children, op>>
    /\ UNCHANGED <<line, nread, ret>>

(* start, line 33: readline returns the child's next line, or the empty    *)
(* string at end of stream.                                                *)
Start_ReadLine ==
    /\ op = "start_read"
    /\ op' = "start_check"
    /\ LET c == children[process] IN
       \/ \E e \in ReadEnds(c) :
            /\ children' = [children EXCEPT ![process] = e]
            /\ line' = EOF
            /\ UNCHANGED nread
       \/ \E l \in StartLines :
            /\ c.outOpen
            /\ nread < MaxStartLines
            /\ line' = l
            /\ nread' = nread + 1
            /\ UNCHANGED children
    /\ UNCHANGED <<process, exc, ret, startCalls>>

(* Faulty start: end of stream ends the wait without an error. *)
Start_Check_BreakOnEnd ==
    /\ op = "start_check"
    /\ IF line = EOF
       THEN /\ exc' = NoExc
            /\ op' = "none"
            /\ line' = NoLine
            /\ nread' = 0
            /\ UNCHANGED children
       ELSE IF IsReady(line)
       THEN /\ children' = [children EXCEPT ![process].ready = TRUE]
            /\ op' = "none"
            /\ line' = NoLine
            /\ nread' = 0
            /\ exc' = NoExc
       ELSE /\ op' = "start_read"
            /\ UNCHANGED <<children, line, nread, exc>>
    /\ UNCHANGED <<process, ret, startCalls>>

(* start, lines 34-39: the line just read ends the wait with an error,     *)
(* ends it with success, or is dropped.                                    *)
Start_Check ==
    /\ op = "start_check"
    /\ IF line = EOF
       THEN /\ exc' = RuntimeError(StartupMsg)
            /\ op' = "none"
            /\ line' = NoLine
            /\ nread' = 0
            /\ UNCHANGED children
       ELSE IF IsReady(line)
       THEN /\ children' = [children EXCEPT ![process].ready = TRUE]
            /\ op' = "none"
            /\ line' = NoLine
            /\ nread' = 0
            /\ exc' = NoExc
       ELSE /\ op' = "start_read"
            /\ UNCHANGED <<children, line, nread, exc>>
    /\ UNCHANGED <<process, ret, startCalls>>

(* Faulty exec: no guard on the handle, so None is dereferenced. *)
Exec_Write_NoGuard(command) ==
    /\ op = "none"
    /\ IF process = 0
       THEN /\ exc' = OtherError("AttributeError")
            /\ UNCHANGED <<children, op>>
       ELSE LET c == children[process] IN
            \/ /\ CanWrite(c)
               /\ children' = [children EXCEPT
                                 ![process].stdin = Append(c.stdin, ExecRequest(command))]
               /\ op' = "exec"
               /\ exc' = NoExc
            \/ \E e \in WriteFails(c) :
                 /\ children' = [children EXCEPT ![process] = e]
                 /\ exc' = OtherError("BrokenPipeError")
                 /\ UNCHANGED op
    /\ UNCHANGED <<process, line, nread, ret, startCalls>>

(* exec, lines 42-47: the guard, then the request line is written. *)
Exec_Write(command) ==
    /\ op = "none"
    /\ IF process = 0
       THEN /\ exc' = RuntimeError(NotStartedMsg)
            /\ UNCHANGED <<children, op>>
       ELSE LET c == children[process] IN
            \/ /\ CanWrite(c)
               /\ children' = [children EXCEPT
                                 ![process].stdin = Append(c.stdin, ExecRequest(command))]
               /\ op' = "exec"
               /\ exc' = NoExc
            \/ \E e \in WriteFails(c) :
                 /\ children' = [children EXCEPT ![process] = e]
                 /\ exc' = OtherError("BrokenPipeError")
                 /\ UNCHANGED op
    /\ UNCHANGED <<process, line, nread, ret, startCalls>>

(* exec, lines 53-57: the response line is parsed and turned into a result *)
(* Faulty exec: only the status "error" is taken as a failure. *)
Exec_Outcome_OnlyErrorFails(resp) ==
    IF ~resp.json THEN [exc |-> OtherError("JSONDecodeError"), ret |-> NoResult]
    ELSE IF resp.status # "error"
         THEN IF resp.hasResult
              THEN [exc |-> NoExc, ret |-> resp.result]
              ELSE [exc |-> OtherError("KeyError"), ret |-> NoResult]
         ELSE [exc |-> RuntimeError(<<"VM Error: ",
                                      IF resp.hasError THEN resp.error ELSE "None">>),
               ret |-> NoResult]

(* or an exception.                                                        *)
Exec_Outcome(resp) ==
    IF ~resp.json THEN [exc |-> OtherError("JSONDecodeError"), ret |-> NoResult]
    ELSE IF resp.status = "ok"
         THEN IF resp.hasResult
              THEN [exc |-> NoExc, ret |-> resp.result]
              ELSE [exc |-> OtherError("KeyError"), ret |-> NoResult]
         ELSE [exc |-> RuntimeError(<<"VM Error: ",
                                      IF resp.hasError THEN resp.error ELSE "None">>),
               ret |-> NoResult]

(* Faulty exec: two response lines are consumed per request. *)
Exec_ReadLine_TwoLines ==
    /\ op = "exec"
    /\ op' = "none"
    /\ LET c == children[process] IN
       \/ \E e \in ReadEnds(c) :
            /\ children' = [children EXCEPT ![process] =
                                [e EXCEPT !.nclosed = c.nclosed + 1]]
            /\ exc' = RuntimeError(ClosedMsg)
            /\ ret' = NoResult
       \/ \E resp \in RespLines :
            /\ c.outOpen
            /\ children' = [children EXCEPT ![process].nresp = c.nresp + 2]
            /\ exc' = Exec_Outcome(resp).exc
            /\ ret' = Exec_Outcome(resp).ret
    /\ UNCHANGED <<process, line, nread, startCalls>>

(* Faulty exec: the empty line of an ended stream is handed to json.loads. *)
Exec_ReadLine_NoEndCheck ==
    /\ op = "exec"
    /\ op' = "none"
    /\ LET c == children[process] IN
       \/ \E e \in ReadEnds(c) :
            /\ children' = [children EXCEPT ![process] =
                                [e EXCEPT !.nclosed = c.nclosed + 1]]
            /\ exc' = OtherError("JSONDecodeError")
            /\ ret' = NoResult
       \/ \E resp \in RespLines :
            /\ c.outOpen
            /\ children' = [children EXCEPT ![process].nresp = c.nresp + 1]
            /\ exc' = Exec_Outcome(resp).exc
            /\ ret' = Exec_Outcome(resp).ret
    /\ UNCHANGED <<process, line, nread, startCalls>>

(* exec, lines 49-57: exactly one line is read. *)
Exec_ReadLine ==
    /\ op = "exec"
    /\ op' = "none"
    /\ LET c == children[process] IN
       \/ \E e \in ReadEnds(c) :
            /\ children' = [children EXCEPT ![process] =
                                [e EXCEPT !.nclosed = c.nclosed + 1]]
            /\ exc' = RuntimeError(ClosedMsg)
            /\ ret' = NoResult
       \/ \E resp \in RespLines :
            /\ c.outOpen
            /\ children' = [children EXCEPT ![process].nresp = c.nresp + 1]
            /\ exc' = Exec_Outcome(resp).exc
            /\ ret' = Exec_Outcome(resp).ret
    /\ UNCHANGED <<process, line, nread, startCalls>>

(* stop, line 66: kill() ends a child that still runs and does nothing to  *)
(* one that has ended.                                                     *)
Kill(c) == [c EXCEPT !.state = IF c.state = "running" THEN "killed" ELSE c.state,
                     !.inOpen = FALSE]

(* Faulty stop: the handle is not cleared (line 67 missing). *)
Stop_KeepsHandle ==
    /\ op = "none"
    /\ stopCalls' = stopCalls + 1
    /\ IF process = 0
       THEN UNCHANGED <<process, children>>
       ELSE LET c == children[process] IN
            /\ UNCHANGED process
            /\ \/ /\ CanWrite(c)
                  /\ LET w == [c EXCEPT !.stdin = Append(c.stdin, StopRequest)] IN
                     \/ children' = [children EXCEPT ![process] = Exited(w)]
                     \/ children' = [children EXCEPT ![process] = Kill(w)]
               \/ \E e \in WriteFails(c) :
                    children' = [children EXCEPT ![process] = Kill(e)]
    /\ exc' = NoExc
    /\ UNCHANGED <<op, line, nread, ret, startCalls>>

(* Faulty stop: the except clause does not kill the child. *)
Stop_NoKill ==
    /\ op = "none"
    /\ stopCalls' = stopCalls + 1
    /\ IF process = 0
       THEN UNCHANGED <<process, children>>
       ELSE LET c == children[process] IN
            /\ process' = 0
            /\ \/ /\ CanWrite(c)
                  /\ LET w == [c EXCEPT !.stdin = Append(c.stdin, StopRequest)] IN
                     \/ children' = [children EXCEPT ![process] = Exited(w)]
                     \/ children' = [children EXCEPT ![process] = w]
               \/ \E e \in WriteFails(c) :
                    children' = [children EXCEPT ![process] = e]
    /\ exc' = NoExc
    /\ UNCHANGED <<op, line, nread, ret, startCalls>>

(* stop, lines 59-67.  The stop request is written and the child is given  *)
(* two seconds to exit; if the write raises or the wait times out the      *)
(* child is killed.  Nothing escapes the bare except.                      *)
Stop ==
    /\ op = "none"
    /\ stopCalls' = stopCalls + 1
    /\ IF process = 0
       THEN UNCHANGED <<process, children>>
       ELSE LET c == children[process] IN
            /\ process' = 0
            /\ \/ /\ CanWrite(c)
                  /\ LET w == [c EXCEPT !.stdin = Append(c.stdin, StopRequest)] IN
                     \/ children' = [children EXCEPT ![process] = Exited(w)]
                     \/ children' = [children EXCEPT ![process] = Kill(w)]
               \/ \E e \in WriteFails(c) :
                    children' = [children EXCEPT ![process] = Kill(e)]
    /\ exc' = NoExc
    /\ UNCHANGED <<op, line, nread, ret, startCalls>>

----------------------------------------------------------------------------
(* An arbitrary single-threaded caller of one client: it makes up to       *)
(* MaxOps calls, each running to completion before the next is made.       *)

Commands == {"ls -F"}

InitCommon ==
    /\ process = 0
    /\ children = <<>>
    /\ op = "none"
    /\ line = NoLine
    /\ nread = 0
    /\ startCalls = 0
    /\ lastCall = "none"
    /\ prevCall = "none"
    /\ exc = NoExc
    /\ ret = NoResult
    /\ messages = <<>>
    /\ step = 0
    /\ pending = <<>>
    /\ idx = 0
    /\ answer = NoAnswer
    /\ caught = NoExc
    /\ issued = 0
    /\ llmCalls = 0
    /\ sent = <<>>
    /\ stopCalls = 0
    /\ nops = 0

InitClient ==
    /\ InitCommon
    /\ pc = "caller"
    /\ apiKey = FALSE
    /\ arg = <<>>
    /\ out = <<>>

Called(name) ==
    /\ nops < MaxOps
    /\ nops' = nops + 1
    /\ lastCall' = name
    /\ prevCall' = lastCall
    /\ UNCHANGED <<arg, out>>

CallStart ==
    /\ Called("start")
    /\ Start_Popen
    /\ UNCHANGED <<avars, stopCalls>>

StartReads ==
    /\ Start_ReadLine
    /\ UNCHANGED <<avars, hvars, stopCalls>>

StartChecks ==
    /\ Start_Check
    /\ UNCHANGED <<avars, hvars, stopCalls>>

CallExec ==
    /\ Called("exec")
    /\ \E command \in Commands : Exec_Write(command)
    /\ UNCHANGED <<avars, stopCalls>>

ExecReads ==
    /\ Exec_ReadLine
    /\ UNCHANGED <<avars, hvars, stopCalls>>

CallStop ==
    /\ Called("stop")
    /\ Stop
    /\ UNCHANGED avars

NextClient ==
    CallStart \/ StartReads \/ StartChecks \/ CallExec \/ ExecReads \/ CallStop

SpecClient == InitClient /\ [][NextClient]_vars

----------------------------------------------------------------------------
(* run_agent *)

ShellTool == "execute_shell_command"

(* A tool invocation of a completion response.  arguments is the JSON      *)
(* string as json.loads sees it: json = FALSE does not parse, hasCommand   *)
(* says whether the parsed object has the key "command".                   *)
ToolCall(id, name, args) == [id |-> id, name |-> name, arguments |-> args]
Args(j, h, c) == [json |-> j, hasCommand |-> h, command |-> c]
ToolCallKinds ==
    { [name |-> ShellTool, arguments |-> Args(TRUE, TRUE, "python3 fib.py")],
      [name |-> ShellTool, arguments |-> Args(FALSE, FALSE, "")],
      [name |-> ShellTool, arguments |-> Args(TRUE, FALSE, "")],
      [name |-> "read_file", arguments |-> Args(TRUE, TRUE, "python3 fib.py")] }

NoId == <<0, 0>>
UserInstruction ==
    <<"C", "a", "l", "c", "u", "l", "a", "t", "e", " ", "t", "h", "e", " ", "1", "0", "t", "h", " ", "F", "i", "b", "o", "n", "a", "c", "c", "i", " ", "n", "u", "m", "b", "e", "r", " ", "u", "s", "i", "n", "g", " ", "P", "y", "t", "h", "o", "n", " ", "a", "n", "d", " ", "t", "e", "l", "l", " ", "m", "e", " ", "t", "h", "e", " ", "r", "e", "s", "u", "l", "t", ".">>
AnswerText == <<"5", "5">>

Message(role, content, calls, id) ==
    [role |-> role, content |-> content, tool_calls |-> calls, tool_call_id |-> id]
UserMessage == Message("user", UserInstruction, <<>>, NoId)

(* Decimal digits of an integer, as str() prints it. *)
Digit(d) == <<"0", "1", "2", "3", "4", "5", "6", "7", "8", "9">>[d + 1]
RECURSIVE NatStr(_)
NatStr(n) == IF n < 10 THEN <<Digit(n)>> ELSE NatStr(n \div 10) \o <<Digit(n % 10)>>
IntStr(n) == IF n < 0 THEN <<"-">> \o NatStr(-n) ELSE NatStr(n)

ErrorPrefix == <<"E", "r", "r", "o", "r", " ", "(", "E", "x", "i", "t", " ">>
ErrorInfix == <<")", ":", " ">>

(* Faulty formatting: stdout is preferred to stderr in the error text. *)
Content_StdoutFirst(cmd_res) ==
    IF cmd_res.exitCode # 0
    THEN ErrorPrefix \o IntStr(cmd_res.exitCode) \o ErrorInfix
         \o (IF cmd_res.stdout # <<>> THEN cmd_res.stdout ELSE cmd_res.stderr)
    ELSE cmd_res.stdout

(* Lines 133-136: the content of the tool-result message. *)
Content(cmd_res) ==
    IF cmd_res.exitCode # 0
    THEN ErrorPrefix \o IntStr(cmd_res.exitCode) \o ErrorInfix
         \o (IF cmd_res.stderr # <<>> THEN cmd_res.stderr ELSE cmd_res.stdout)
    ELSE cmd_res.stdout

(* Faulty tool message: the invocation identifier is left out. *)
ToolMessage_NoId(tool_call, content) == Message("tool", content, <<>>, NoId)

ToolMessage(tool_call, content) == Message("tool", content, <<>>, tool_call.id)

(* The for loop of line 124 moves to the next invocation, or the while     *)
(* loop of line 107 to its next test.                                      *)
AfterToolCall == IF idx + 1 > Len(pending) THEN "loop" ELSE "tools"

Init ==
    /\ InitCommon
    /\ pc = "start"
    /\ arg = <<>>
    /\ out = <<>>
    /\ apiKey \in BOOLEAN

(* Lines 70-72: vm.start() is called. *)
Agent_Start ==
    /\ pc = "start"
    /\ Start_Popen
    /\ pc' = IF op' = "start_read" THEN "ready_wait" ELSE "except"
    /\ UNCHANGED <<apiKey, messages, step, pending, idx, answer, caught, issued,
                   llmCalls, stopCalls, hvars, sent>>

Agent_StartRead ==
    /\ pc = "ready_wait"
    /\ Start_ReadLine
    /\ UNCHANGED <<pc, apiKey, messages, step, pending, idx, answer, caught, issued,
                   llmCalls, stopCalls, hvars, sent>>

Agent_StartCheck ==
    /\ pc = "ready_wait"
    /\ Start_Check
    /\ pc' = IF op' = "start_read" THEN pc ELSE IF exc' = NoExc THEN "check_key" ELSE "except"
    /\ UNCHANGED <<apiKey, messages, step, pending, idx, answer, caught, issued,
                   llmCalls, stopCalls, hvars, sent>>

(* Lines 95-105 and 144-147: the credential decides between the loop and   *)
(* Faulty run_agent: the tool loop is entered without a credential. *)
Agent_CheckKey_NoDegraded ==
    /\ pc = "check_key"
    /\ IF TRUE
       THEN /\ messages' = <<UserMessage>>
            /\ step' = 0
            /\ pc' = "loop"
       ELSE /\ pc' = "sim"
            /\ UNCHANGED <<messages, step>>
    /\ UNCHANGED <<cvars, startCalls, apiKey, pending, idx, answer, caught, issued, llmCalls,
                   stopCalls, hvars, sent>>

(* the simulated interaction.                                              *)
Agent_CheckKey ==
    /\ pc = "check_key"
    /\ IF apiKey
       THEN /\ messages' = <<UserMessage>>
            /\ step' = 0
            /\ pc' = "loop"
       ELSE /\ pc' = "sim"
            /\ UNCHANGED <<messages, step>>
    /\ UNCHANGED <<cvars, startCalls, apiKey, pending, idx, answer, caught, issued, llmCalls,
                   stopCalls, hvars, sent>>

(* What the completion endpoint may return on a call: n tool invocations   *)
(* (n = 0 is a plain answer), identified by the call and their position.   *)
Responses ==
    UNION { { [k \in 1..n |-> ToolCall(<<llmCalls + 1, k>>, f[k].name, f[k].arguments)] :
                f \in [1..n -> ToolCallKinds] } :
            n \in { m \in 0..MaxCallsPerResponse : issued + m <= MaxTotalCalls } }

(* Faulty loop test: one step too many. *)
LoopGuard_OffByOne == step <= MAX_STEPS

(* Faulty loop test: one step too few. *)
LoopGuard_Short == step < MAX_STEPS - 1

(* Line 107: the test of the while loop. *)
LoopGuard == step < MAX_STEPS

(* Faulty run_agent: the response is appended to a fresh conversation. *)
Agent_Complete_DropsHistory ==
    /\ pc = "loop"
    /\ LoopGuard
    /\ step' = step + 1
    /\ llmCalls' = llmCalls + 1
    /\ sent' = messages
    /\ \/ /\ exc' = OtherError("APIError")
          /\ pc' = "except"
          /\ UNCHANGED <<messages, pending, idx, answer, issued>>
       \/ \E calls \in Responses :
            /\ messages' = Append(<<UserMessage>>,
                   Message("assistant", IF calls = <<>> THEN AnswerText ELSE <<>>,
                           calls, NoId))
            /\ issued' = issued + Len(calls)
            /\ IF calls = <<>>
               THEN /\ answer' = [printed |-> TRUE, text |-> AnswerText]
                    /\ pc' = "finally"
                    /\ UNCHANGED <<pending, idx>>
               ELSE /\ pending' = calls
                    /\ idx' = 1
                    /\ pc' = "tools"
                    /\ UNCHANGED answer
            /\ UNCHANGED exc
    /\ UNCHANGED <<process, children, op, line, nread, ret, startCalls, apiKey, caught,
                   stopCalls, hvars>>

(* Lines 107-122: one completion call, or an exception from it. *)
Agent_Complete ==
    /\ pc = "loop"
    /\ LoopGuard
    /\ step' = step + 1
    /\ llmCalls' = llmCalls + 1
    /\ sent' = messages
    /\ \/ /\ exc' = OtherError("APIError")
          /\ pc' = "except"
          /\ UNCHANGED <<messages, pending, idx, answer, issued>>
       \/ \E calls \in Responses :
            /\ messages' = Append(messages,
                   Message("assistant", IF calls = <<>> THEN AnswerText ELSE <<>>,
                           calls, NoId))
            /\ issued' = issued + Len(calls)
            /\ IF calls = <<>>
               THEN /\ answer' = [printed |-> TRUE, text |-> AnswerText]
                    /\ pc' = "finally"
                    /\ UNCHANGED <<pending, idx>>
               ELSE /\ pending' = calls
                    /\ idx' = 1
                    /\ pc' = "tools"
                    /\ UNCHANGED answer
            /\ UNCHANGED exc
    /\ UNCHANGED <<process, children, op, line, nread, ret, startCalls, apiKey, caught,
                   stopCalls, hvars>>

(* Line 107: the step budget is used up. *)
Agent_LoopExit ==
    /\ pc = "loop"
    /\ ~LoopGuard
    /\ pc' = "finally"
    /\ UNCHANGED <<cvars, startCalls, apiKey, messages, step, pending, idx, answer, caught, issued,
                   llmCalls, stopCalls, hvars, sent>>

(* Lines 124-130: the next tool invocation, up to the request written by   *)
(* Faulty run_agent: the name of the invocation is not looked at. *)
Agent_ToolCall_AnyName ==
    /\ pc = "tools"
    /\ LET tool_call == pending[idx] IN
       IF FALSE
       THEN /\ idx' = idx + 1
            /\ pc' = AfterToolCall
            /\ UNCHANGED <<cvars, startCalls>>
       ELSE IF ~tool_call.arguments.json
       THEN /\ exc' = OtherError("JSONDecodeError")
            /\ pc' = "except"
            /\ UNCHANGED <<process, children, op, line, nread, ret, startCalls, idx>>
       ELSE IF ~tool_call.arguments.hasCommand
       THEN /\ exc' = OtherError("KeyError")
            /\ pc' = "except"
            /\ UNCHANGED <<process, children, op, line, nread, ret, startCalls, idx>>
       ELSE /\ Exec_Write(tool_call.arguments.command)
            /\ pc' = IF op' = "exec" THEN "exec_read" ELSE "except"
            /\ UNCHANGED idx
    /\ UNCHANGED <<apiKey, messages, step, pending, answer, caught, issued, llmCalls,
                   stopCalls, hvars, sent>>

(* vm.exec.                                                                *)
Agent_ToolCall ==
    /\ pc = "tools"
    /\ LET tool_call == pending[idx] IN
       IF tool_call.name # ShellTool
       THEN /\ idx' = idx + 1
            /\ pc' = AfterToolCall
            /\ UNCHANGED <<cvars, startCalls>>
       ELSE IF ~tool_call.arguments.json
       THEN /\ exc' = OtherError("JSONDecodeError")
            /\ pc' = "except"
            /\ UNCHANGED <<process, children, op, line, nread, ret, startCalls, idx>>
       ELSE IF ~tool_call.arguments.hasCommand
       THEN /\ exc' = OtherError("KeyError")
            /\ pc' = "except"
            /\ UNCHANGED <<process, children, op, line, nread, ret, startCalls, idx>>
       ELSE /\ Exec_Write(tool_call.arguments.command)
            /\ pc' = IF op' = "exec" THEN "exec_read" ELSE "except"
            /\ UNCHANGED idx
    /\ UNCHANGED <<apiKey, messages, step, pending, answer, caught, issued, llmCalls,
                   stopCalls, hvars, sent>>

(* Lines 130-143: vm.exec returns or raises; the result is formatted and   *)
(* Faulty run_agent: a failed exec is skipped and the loop goes on. *)
Agent_ExecRead_SkipsFailure ==
    /\ pc = "exec_read"
    /\ Exec_ReadLine
    /\ IF exc' = NoExc
       THEN /\ messages' = Append(messages, ToolMessage(pending[idx], Content(ret')))
            /\ idx' = idx + 1
            /\ pc' = AfterToolCall
       ELSE /\ pc' = AfterToolCall
            /\ idx' = idx + 1
            /\ UNCHANGED messages
    /\ UNCHANGED <<apiKey, step, pending, answer, caught, issued, llmCalls,
                   stopCalls, hvars, sent>>

(* Faulty run_agent: a non-zero exit code is taken as a failure of exec. *)
Agent_ExecRead_RaisesOnExit ==
    /\ pc = "exec_read"
    /\ Exec_ReadLine
    /\ IF exc' = NoExc /\ ret'.exitCode = 0
       THEN /\ messages' = Append(messages, ToolMessage(pending[idx], Content(ret')))
            /\ idx' = idx + 1
            /\ pc' = AfterToolCall
       ELSE /\ pc' = "except"
            /\ UNCHANGED <<messages, idx>>
    /\ UNCHANGED <<apiKey, step, pending, answer, caught, issued, llmCalls,
                   stopCalls, hvars, sent>>

(* appended as a tool message.                                             *)
Agent_ExecRead ==
    /\ pc = "exec_read"
    /\ Exec_ReadLine
    /\ IF exc' = NoExc
       THEN /\ messages' = Append(messages, ToolMessage(pending[idx], Content(ret')))
            /\ idx' = idx + 1
            /\ pc' = AfterToolCall
       ELSE /\ pc' = "except"
            /\ UNCHANGED <<messages, idx>>
    /\ UNCHANGED <<apiKey, step, pending, answer, caught, issued, llmCalls,
                   stopCalls, hvars, sent>>

(* Lines 144-149: the simulated interaction. *)
SimCommand == "ls -F"

Agent_SimExec ==
    /\ pc = "sim"
    /\ Exec_Write(SimCommand)
    /\ pc' = IF op' = "exec" THEN "sim_read" ELSE "except"
    /\ UNCHANGED <<apiKey, messages, step, pending, idx, answer, caught, issued,
                   llmCalls, stopCalls, hvars, sent>>

Agent_SimRead ==
    /\ pc = "sim_read"
    /\ Exec_ReadLine
    /\ pc' = IF exc' = NoExc THEN "finally" ELSE "except"
    /\ UNCHANGED <<apiKey, messages, step, pending, idx, answer, caught, issued,
                   llmCalls, stopCalls, hvars, sent>>

(* Faulty run_agent: the handler returns without the finally clause. *)
Agent_Except_NoFinally ==
    /\ pc = "except"
    /\ caught' = exc
    /\ pc' = "done"
    /\ UNCHANGED <<cvars, startCalls, apiKey, messages, step, pending, idx, answer, issued,
                   llmCalls, stopCalls, hvars, sent>>

(* Lines 151-152: the top-level handler. *)
Agent_Except ==
    /\ pc = "except"
    /\ caught' = exc
    /\ pc' = "finally"
    /\ UNCHANGED <<cvars, startCalls, apiKey, messages, step, pending, idx, answer, issued,
                   llmCalls, stopCalls, hvars, sent>>

(* Lines 153-154: vm.stop() in the finally clause. *)
Agent_Finally ==
    /\ pc = "finally"
    /\ Stop
    /\ pc' = "done"
    /\ UNCHANGED <<apiKey, messages, step, pending, idx, answer, caught, issued,
                   llmCalls, hvars, sent>>

Next ==
    \/ Agent_Start
    \/ Agent_StartRead
    \/ Agent_StartCheck
    \/ Agent_CheckKey
    \/ Agent_Complete
    \/ Agent_LoopExit
    \/ Agent_ToolCall
    \/ Agent_ExecRead
    \/ Agent_SimExec
    \/ Agent_SimRead
    \/ Agent_Except
    \/ Agent_Finally

Spec == Init /\ [][Next]_vars

----------------------------------------------------------------------------
(* The client's states, as section 4.1 of the design names them. *)

NotStarted == startCalls = 0
Ready == process # 0 /\ children[process].ready
Starting == process # 0 /\ ~children[process].ready
Stopped == process = 0 /\ stopCalls > 0

ExecCalled == nops' = nops + 1 /\ lastCall' = "exec"
StopCalled == stopCalls' = stopCalls + 1

NumExec(s) == Cardinality({ k \in DOMAIN s : s[k].cmd = "exec" })
Front(s) == SubSeq(s, 1, Len(s) - 1)
Last(s) == s[Len(s)]

IsAssistant(m) == m.role = "assistant"
Assistant == SelectSeq(messages, IsAssistant)
OneShellCall(m) == Len(m.tool_calls) = 1 /\ m.tool_calls[1].name = ShellTool

----------------------------------------------------------------------------
(* C1: exec is valid only in Ready -- a call of exec in any other client   *)
(* state (never started, start failed, stopped) raises and writes no       *)
(* request line to any child.                                              *)
C1_ExecOnlyInReady ==
    [][(ExecCalled /\ ~Ready) =>
         /\ exc' # NoExc
         /\ op' = "none"
         /\ \A i \in DOMAIN children : children'[i].stdin = children[i].stdin]_vars

(* C2: exec on a client on which start was never called raises "VM not     *)
(* started", writes no request and reads no response.                      *)
C2_NotStartedGate ==
    [][(ExecCalled /\ NotStarted) =>
         /\ exc' = RuntimeError(NotStartedMsg)
         /\ op' = "none"
         /\ UNCHANGED <<process, children, ret>>]_vars

C2_Witness ==
    /\ NotStarted
    /\ lastCall = "exec"
    /\ exc = RuntimeError(NotStartedMsg)

(* C3, as claimed: in run_agent no request line (exec or stop) is written  *)
(* to a child before start has read READY from it.                         *)
C3_NoRequestBeforeReady ==
    \A i \in DOMAIN children : children[i].stdin # <<>> => children[i].ready

(* C3, amended: no exec request is written to a child before READY has     *)
(* been read from it; the one request such a child can receive is the      *)
(* stop request of the final stop.                                         *)
C3_NoExecBeforeReady ==
    \A i \in DOMAIN children :
        ~children[i].ready =>
            /\ children[i].stdin \in {<<>>, <<StopRequest>>}
            /\ children[i].stdin # <<>> => pc = "done"

C3_Witness ==
    /\ pc = "done"
    /\ caught = RuntimeError(StartupMsg)
    /\ children # <<>>
    /\ ~children[1].ready
    /\ children[1].stdin = <<StopRequest>>

(* C4, as claimed: start returns normally only on a line equal to READY    *)
(* (with or without its line terminator).                                  *)
C4_ReturnsOnExactReady ==
    [][(op = "start_check" /\ op' = "none" /\ exc' = NoExc) =>
         line \in {READY \o NL, READY}]_vars

(* C4, amended: start returns normally only on a line that is READY once   *)
(* leading and trailing whitespace is stripped; any other line is dropped  *)
(* with no effect; at end of stream start raises the startup error.        *)
C4_StartWaitsForReady ==
    [][op = "start_check" =>
         /\ line = EOF =>
              /\ exc' = RuntimeError(StartupMsg)
              /\ op' = "none"
              /\ ~children'[process].ready
         /\ (line # EOF /\ Strip(line) = READY) =>
              /\ exc' = NoExc
              /\ op' = "none"
              /\ children'[process].ready
         /\ (line # EOF /\ Strip(line) # READY) =>
              /\ op' = "start_read"
              /\ UNCHANGED <<process, children, exc, ret>>]_vars

C4_Witness ==
    /\ lastCall = "start"
    /\ op = "none"
    /\ exc = NoExc
    /\ process # 0
    /\ children[process].ready

(* C5, as claimed: no request line is written to a child while an earlier  *)
(* exec request has not had its response line read (stated for children    *)
(* on which start succeeded, so that it does not rest on C1).              *)
C5_StrictRequestReply ==
    \A i \in DOMAIN children :
        LET s == children[i].stdin IN
        (children[i].ready /\ s # <<>>) => NumExec(Front(s)) <= children[i].nresp

(* C5, amended: every exec request written is followed by exactly one      *)
(* read, which yields one response line or meets end of stream, and no     *)
(* request line is written while that read is pending.                     *)
C5_OneReadPerRequest ==
    /\ \A i \in DOMAIN children :
         NumExec(children[i].stdin) =
            children[i].nresp + children[i].nclosed
            + (IF op = "exec" /\ process = i THEN 1 ELSE 0)
    /\ op = "exec" => process # 0 /\ Last(children[process].stdin).cmd = "exec"

C5_Witness ==
    \E i \in DOMAIN children :
        /\ children[i].ready
        /\ children[i].nclosed = 1
        /\ children[i].nresp = 1
        /\ Len(children[i].stdin) = 3
        /\ Last(children[i].stdin) = StopRequest

(* C6: on every exit path of run_agent stop is called exactly once, and    *)
(* it is the last thing the run does: run_agent ends only at "done", stop  *)
(* has been called once there and not at all before.                       *)
C6_StopExactlyOnce ==
    /\ stopCalls = (IF pc = "done" THEN 1 ELSE 0)
    /\ (ENABLED Next) <=> pc # "done"
    /\ pc = "done" => process = 0 /\ op = "none"

C6_Witness ==
    /\ pc = "done"
    /\ stopCalls = 1
    /\ caught = RuntimeError(ClosedMsg)

(* C7: stop with no process handle changes nothing and raises nothing; in  *)
(* particular a stop right after a stop writes no request and kills        *)
(* nothing.                                                                *)
C7_StopIdempotent ==
    [][(StopCalled /\ (process = 0 \/ lastCall = "stop")) =>
         /\ UNCHANGED <<process, children, op, ret>>
         /\ process' = 0
         /\ exc' = NoExc]_vars

C7_Witness ==
    /\ lastCall = "stop"
    /\ prevCall = "stop"
    /\ \E i \in DOMAIN children :
         /\ children[i].stdin # <<>>
         /\ Last(children[i].stdin) = StopRequest

(* C8: whatever the client's state, stop returns normally, leaves no       *)
(* process handle, and the child the handle named is no longer running     *)
(* (it exited on the stop request, or it was killed).                      *)
C8_StopReleases ==
    [][StopCalled =>
         /\ process' = 0
         /\ exc' = NoExc
         /\ op' = "none"
         /\ process # 0 =>
              /\ children'[process].state \in {"exited", "killed"}
              /\ ~children'[process].inOpen]_vars

C8_Witness ==
    /\ lastCall = "stop"
    /\ process = 0
    /\ \E i \in DOMAIN children :
         /\ children[i].state = "killed"
         /\ StopRequest \notin { children[i].stdin[k] : k \in DOMAIN children[i].stdin }

(* C9: a client launches at most one child over its lifetime (start on a   *)
(* client that is Starting, Ready or Stopped launches nothing).            *)
C9_SingleChild == Len(children) <= 1

(* C10: the loop makes at most MAX_STEPS completion calls and ends at the  *)
(* first response without tool invocations, printing its text; with one    *)
(* execute_shell_command invocation on steps 1 and 2 and plain text on     *)
(* step 3 the run makes 3 completion calls and 2 bridge exchanges.         *)
C10_LoopTerminates ==
    /\ llmCalls <= MAX_STEPS
    /\ step <= MAX_STEPS
    /\ \A k \in 1..(Len(Assistant) - 1) : Assistant[k].tool_calls # <<>>
    /\ (Assistant # <<>> /\ Last(Assistant).tool_calls = <<>>) =>
            /\ pc \in {"finally", "done"}
            /\ answer = [printed |-> TRUE, text |-> Last(Assistant).content]
            /\ llmCalls = Len(Assistant)
    /\ answer.printed => (Assistant # <<>> /\ Last(Assistant).tool_calls = <<>>)
    /\ (/\ pc = "done"
        /\ Len(Assistant) = 3
        /\ OneShellCall(Assistant[1])
        /\ OneShellCall(Assistant[2])
        /\ Assistant[3].tool_calls = <<>>) =>
            /\ llmCalls = 3
            /\ NumExec(children[1].stdin) = 2
            /\ children[1].nresp = 2
            /\ caught = NoExc
            /\ answer.text = Assistant[3].content

C10_Witness ==
    /\ pc = "done"
    /\ Len(Assistant) = 3
    /\ OneShellCall(Assistant[1])
    /\ OneShellCall(Assistant[2])
    /\ Assistant[3].tool_calls = <<>>
    /\ answer.printed

----------------------------------------------------------------------------
(* The conversation seen as completion responses and their replies. *)

IsShell(tool_call) == tool_call.name = ShellTool
ShellCalls(calls) == SelectSeq(calls, IsShell)
Ids(calls) == [k \in DOMAIN calls |-> calls[k].id]
IsTool(m) == m.role = "tool"
ToolMessages == SelectSeq(messages, IsTool)

AssistantPos == { p \in DOMAIN messages : IsAssistant(messages[p]) }
NextAssistant(p) ==
    LET later == { q \in AssistantPos : q > p } IN
    IF later = {} THEN Len(messages) + 1
    ELSE CHOOSE q \in later : \A r \in later : q <= r
Replies(p) == SubSeq(messages, p + 1, NextAssistant(p) - 1)
ReplyIds(p) == [k \in DOMAIN Replies(p) |-> Replies(p)[k].tool_call_id]

(* The for loop over the response at position p has run to its end. *)
Handled(p) == NextAssistant(p) <= Len(messages) \/ idx > Len(pending)

(* The exception that aborted the run, or NoExc. *)
Failure == IF caught # NoExc THEN caught ELSE exc

(* C11, as stated: once a completion response has been processed, every    *)
(* tool invocation of it has, in order, exactly one tool-result message    *)
(* tagged with its identifier.                                             *)
C11_EveryInvocationAnswered ==
    \A p \in AssistantPos :
        Handled(p) => ReplyIds(p) = Ids(messages[p].tool_calls)

(* C11, amended: the invocations named execute_shell_command of a response *)
(* are answered in order, each by exactly one exec request and, when it    *)
(* returns, exactly one tool-result message tagged with its identifier,    *)
(* all before the next completion call; other invocations are skipped, and *)
(* a failing one leaves the ones after it unanswered.                      *)
C11_EachShellCallAnswered ==
    (apiKey /\ children # <<>>) =>
        /\ \A p \in AssistantPos :
               LET calls == messages[p].tool_calls IN
               /\ \A k \in DOMAIN Replies(p) : IsTool(Replies(p)[k])
               /\ Handled(p) => ReplyIds(p) = Ids(ShellCalls(calls))
               /\ ~Handled(p) => ReplyIds(p) = Ids(ShellCalls(SubSeq(calls, 1, idx - 1)))
        /\ pc = "exec_read" =>
               NumExec(children[1].stdin) = Len(ToolMessages) + 1
        /\ pc \in {"tools", "loop"} =>
               /\ NumExec(children[1].stdin) = Len(ToolMessages)
               /\ children[1].nresp = Len(ToolMessages)
        /\ (pc = "loop" /\ llmCalls > 0) => sent = SubSeq(messages, 1, Len(sent))
                                           /\ Len(sent) < Len(messages)
                                           /\ IsAssistant(messages[Len(sent) + 1])

C11_Witness ==
    /\ pc = "loop"
    /\ Len(messages) = 4
    /\ Len(messages[2].tool_calls) = 2
    /\ \A k \in 1..2 : IsShell(messages[2].tool_calls[k])
    /\ ReplyIds(2) = Ids(messages[2].tool_calls)
    /\ NumExec(children[1].stdin) = 2

(* Calls of exec made so far by run_agent: the requests written, and the   *)
(* call whose write raised.                                                *)
ExecAttempts ==
    NumExec(children[1].stdin) + (IF Failure.type = "BrokenPipeError" THEN 1 ELSE 0)

(* C12: without a credential the run makes no completion call, and once    *)
(* start has succeeded it calls exec exactly once, with the fixed listing  *)
(* command, before the stop of the finally clause.                         *)
C12_DegradedOneExchange ==
    ~apiKey =>
        /\ llmCalls = 0
        /\ messages = <<>>
        /\ sent = <<>>
        /\ children # <<>> =>
             LET c == children[1] IN
             /\ \A k \in DOMAIN c.stdin :
                    c.stdin[k].cmd = "exec" => (k = 1 /\ c.stdin[k] = ExecRequest(SimCommand))
             /\ c.nresp + c.nclosed <= NumExec(c.stdin)
             /\ ~c.ready => NumExec(c.stdin) = 0
             /\ (pc \in {"except", "finally", "done"} /\ c.ready) => ExecAttempts = 1
             /\ (pc \in {"finally", "done"} /\ caught = NoExc) =>
                    /\ NumExec(c.stdin) = 1
                    /\ c.nresp = 1
                    /\ ret \in Results
             /\ (pc = "done" /\ c.ready) => stopCalls = 1

C12_Witness ==
    /\ ~apiKey
    /\ pc = "done"
    /\ caught = NoExc
    /\ children[1].stdin = <<ExecRequest(SimCommand), StopRequest>>
    /\ children[1].nresp = 1
    /\ llmCalls = 0

----------------------------------------------------------------------------
(* exec's handling of one response line (lines 53-57), applied to every    *)
(* response line of a bounded set.                                         *)

Statuses == {"ok", "error", "busy", "fail", "OK", ""}
Errors == {"boom", "oops"}
RespInputs ==
    RespLines
    \cup { Resp(st, hr[1], hr[2], he[1], he[2]) :
             st \in Statuses,
             hr \in {<<FALSE, NoResult>>} \cup { <<TRUE, r>> : r \in Results },
             he \in {<<FALSE, "">>} \cup { <<TRUE, e>> : e \in Errors } }

InitOutcome ==
    /\ InitCommon
    /\ pc = "exec_parse"
    /\ apiKey = FALSE
    /\ arg \in RespInputs
    /\ out = <<>>

ApplyOutcome ==
    /\ pc = "exec_parse"
    /\ out = <<>>
    /\ out' = <<Exec_Outcome(arg)>>
    /\ UNCHANGED <<cvars, avars, stopCalls, startCalls, nops, lastCall, prevCall, arg>>

NextOutcome == ApplyOutcome

SpecOutcome == InitOutcome /\ [][NextOutcome]_vars

(* C13, as stated: a response whose status is not "ok" and whose error     *)
(* field is E makes exec fail with an error whose message is E.            *)
C13_MessageIsError ==
    (out # <<>> /\ arg.json /\ arg.status # "ok" /\ arg.hasError) =>
        /\ out[1].ret = NoResult
        /\ out[1].exc.type = "RuntimeError"
        /\ out[1].exc.msg = <<arg.error>>

(* C13, amended: a response whose status is not "ok" makes exec return no  *)
(* result and raise RuntimeError with the message "VM Error: " followed by *)
(* the error field ("VM Error: boom" for "boom"), or by "None" when the    *)
(* response has no error field.                                            *)
C13_ErrorPropagates ==
    (out # <<>> /\ arg.json /\ arg.status # "ok") =>
        /\ out[1].ret = NoResult
        /\ out[1].exc.type = "RuntimeError"
        /\ Len(out[1].exc.msg) = 2
        /\ out[1].exc.msg[1] = "VM Error: "
        /\ arg.hasError => out[1].exc.msg[2] = arg.error
        /\ ~arg.hasError => out[1].exc.msg[2] = "None"
        /\ (arg.hasError /\ arg.error = "boom") =>
               out[1].exc = RuntimeError(<<"VM Error: ", "boom">>)

C13_Witness ==
    /\ out # <<>>
    /\ arg = Resp("error", FALSE, NoResult, TRUE, "boom")
    /\ out[1].exc.msg = <<"VM Error: ", "boom">>
    /\ out[1].ret = NoResult

----------------------------------------------------------------------------
(* C14: when the read of exec meets the end of the child's output, exec    *)
(* ends at once by raising RuntimeError("VM closed connection"): no result *)
(* is returned, no further line is read, nothing more is written.          *)
C14_ClosedOnEndOfStream ==
    [][(op = "exec" /\ op' = "none" /\ ~children'[process].outOpen) =>
          /\ exc' = RuntimeError(ClosedMsg)
          /\ ret' = NoResult
          /\ children'[process].nresp = children[process].nresp
          /\ children'[process].stdin = children[process].stdin
          /\ process' = process]_vars

C14_Witness ==
    /\ lastCall = "exec"
    /\ op = "none"
    /\ process # 0
    /\ children[process].ready
    /\ ~children[process].outOpen
    /\ children[process].nclosed = 1
    /\ children[process].nresp = 0
    /\ Last(children[process].stdin).cmd = "exec"
    /\ exc = RuntimeError(ClosedMsg)
    /\ ret = NoResult

----------------------------------------------------------------------------
(* C15: once a step of run_agent has raised, the run makes no further      *)
(* completion call, writes no further exec request, reads no further       *)
(* response, leaves the remaining tool invocations unprocessed, and the    *)
(* only thing it still does to the child is the stop of the finally clause.*)
C15_FailureAborts ==
    [][Failure # NoExc =>
          /\ pc \in {"except", "finally"}
          /\ pc' \in {"finally", "done"}
          /\ llmCalls' = llmCalls
          /\ sent' = sent
          /\ <<messages, pending, idx, step, answer>>' = <<messages, pending, idx, step, answer>>
          /\ startCalls' = startCalls
          /\ Len(children') = Len(children)
          /\ \A i \in DOMAIN children :
                 /\ NumExec(children'[i].stdin) = NumExec(children[i].stdin)
                 /\ children'[i].nresp = children[i].nresp
                 /\ children'[i].nclosed = children[i].nclosed
          /\ <<process, children>>' # <<process, children>> => StopCalled]_vars

C15_Witness ==
    /\ pc = "done"
    /\ caught = RuntimeError(ClosedMsg)
    /\ stopCalls = 1
    /\ Len(pending) = 2
    /\ idx = 1
    /\ IsShell(pending[2])
    /\ llmCalls = 1
    /\ NumExec(children[1].stdin) = 1
    /\ ToolMessages = <<>>

----------------------------------------------------------------------------
(* C16: an "ok" response whose result has a non-zero exit code is returned *)
(* by exec as a result; run_agent appends the tool-result message for it   *)
(* and goes on with the loop, without entering its exception handler.      *)
C16_NonZeroExitIsResult ==
    [][/\ \A r \in Results :
              Exec_Outcome(Resp("ok", TRUE, r, FALSE, "")) = [exc |-> NoExc, ret |-> r]
       /\ (pc = "exec_read" /\ ret' \in Results /\ ret'.exitCode # 0) =>
              /\ exc' = NoExc
              /\ caught' = NoExc
              /\ messages' = Append(messages,
                     Message("tool", Content(ret'), <<>>, pending[idx].id))
              /\ idx' = idx + 1
              /\ pc' \in {"tools", "loop"}
              /\ stopCalls' = stopCalls]_vars

C16_Witness ==
    /\ pc = "done"
    /\ caught = NoExc
    /\ answer.printed
    /\ llmCalls = 2
    /\ Len(messages) = 4
    /\ IsTool(messages[3])
    /\ messages[3].content =
         <<"E", "r", "r", "o", "r", " ", "(", "E", "x", "i", "t", " ", "2", ")", ":", " ",
           "e", "r", "r">>

----------------------------------------------------------------------------
(* The formatting of a command result (lines 133-136), applied to every    *)
(* result of a bounded set.                                                *)

Texts == {<<>>, <<"o">>, <<"o", "u", "t">>, <<"e", "r", "r">>}
ExitCodes == {-1, 0, 1, 2, 10, 127}
CmdResults == [stdout : Texts, stderr : Texts, exitCode : ExitCodes]

InitContent ==
    /\ InitCommon
    /\ pc = "format"
    /\ apiKey = TRUE
    /\ arg \in CmdResults
    /\ out = <<>>

ApplyContent ==
    /\ pc = "format"
    /\ out = <<>>
    /\ out' = <<Content(arg)>>
    /\ UNCHANGED <<cvars, avars, stopCalls, startCalls, nops, lastCall, prevCall, arg>>

NextContent == ApplyContent

SpecContent == InitContent /\ [][NextContent]_vars

(* The decimal text of the exit codes of the input set, written out. *)
Decimal(n) ==
    CASE n = -1 -> <<"-", "1">>
      [] n = 0 -> <<"0">>
      [] n = 1 -> <<"1">>
      [] n = 2 -> <<"2">>
      [] n = 10 -> <<"1", "0">>
      [] n = 127 -> <<"1", "2", "7">>

(* C17: the content is stdout verbatim when the exit code is 0; for an     *)
(* exit code n other than 0 it is "Error (Exit n): " followed by stderr if *)
(* stderr is non-empty, else by stdout.                                    *)
C17_ContentFormat ==
    out # <<>> =>
        /\ arg.exitCode = 0 => out[1] = arg.stdout
        /\ arg.exitCode # 0 =>
               out[1] = <<"E", "r", "r", "o", "r", " ", "(", "E", "x", "i", "t", " ">> \o Decimal(arg.exitCode) \o <<")", ":", " ">>
                        \o (IF arg.stderr = <<>> THEN arg.stdout ELSE arg.stderr)
        /\ arg = [stdout |-> <<"o", "u", "t">>, stderr |-> <<"e", "r", "r">>, exitCode |-> 2] => out[1] =
                 <<"E", "r", "r", "o", "r", " ", "(", "E", "x", "i", "t", " ", "2", ")", ":", " ", "e", "r", "r">>
        /\ arg = [stdout |-> <<"o", "u", "t">>, stderr |-> <<>>, exitCode |-> 2] => out[1] =
                 <<"E", "r", "r", "o", "r", " ", "(", "E", "x", "i", "t", " ", "2", ")", ":", " ", "o", "u", "t">>

C17_Witness ==
    /\ out # <<>>
    /\ arg = [stdout |-> <<"o", "u", "t">>, stderr |-> <<>>, exitCode |-> 2]
    /\ out[1] =
                 <<"E", "r", "r", "o", "r", " ", "(", "E", "x", "i", "t", " ", "2", ")", ":", " ", "o", "u", "t">>

----------------------------------------------------------------------------
LastAssistantPos == CHOOSE p \in AssistantPos : \A q \in AssistantPos : q <= p

(* C18: the conversation starts as the single user instruction and only    *)
(* grows at its end, one message at a time: the assistant message of a     *)
(* completion call, then the tool-result messages of its invocations in    *)
(* invocation order; every completion call is passed the whole             *)
(* conversation as it stands.                                              *)
C18_AppendOnly ==
    [][/\ messages = <<>> => messages' \in {<<>>, <<UserMessage>>}
       /\ messages # <<>> =>
            /\ messages[1] = UserMessage
            /\ \/ messages' = messages
               \/ /\ Len(messages') = Len(messages) + 1
                  /\ Front(messages') = messages
                  /\ LET m == Last(messages') IN
                     \/ /\ llmCalls' = llmCalls + 1
                        /\ IsAssistant(m)
                     \/ /\ llmCalls' = llmCalls
                        /\ IsTool(m)
                        /\ pending = messages[LastAssistantPos].tool_calls
                        /\ m.tool_call_id = pending[idx].id
                        /\ idx' = idx + 1
                        /\ \A k \in DOMAIN Replies(LastAssistantPos) :
                               \E j \in 1..(idx - 1) :
                                   Replies(LastAssistantPos)[k].tool_call_id = pending[j].id
       /\ llmCalls' = llmCalls + 1 => (messages # <<>> /\ sent' = messages)
       /\ llmCalls' = llmCalls => sent' = sent]_vars

C18_Witness ==
    /\ pc = "done"
    /\ answer.printed
    /\ llmCalls = 2
    /\ Len(messages) = 5
    /\ messages[1] = UserMessage
    /\ IsAssistant(messages[2])
    /\ IsTool(messages[3]) /\ messages[3].tool_call_id = messages[2].tool_calls[1].id
    /\ IsTool(messages[4]) /\ messages[4].tool_call_id = messages[2].tool_calls[2].id
    /\ IsAssistant(messages[5])
    /\ sent = SubSeq(messages, 1, 4)

----------------------------------------------------------------------------
(* C19: when every completion response carries a tool invocation and       *)
(* nothing fails, the run ends after exactly MAX_STEPS completion calls    *)
(* with no exception and no answer printed; the conversation of the last   *)
(* call ends before the last assistant message, so the tool results of the *)
(* last step were never sent; stop has been called.                        *)
C19_SilentExhaustion ==
    (/\ pc \in {"finally", "done"}
     /\ apiKey
     /\ Failure = NoExc
     /\ \A k \in DOMAIN Assistant : Assistant[k].tool_calls # <<>>) =>
        /\ llmCalls = MAX_STEPS
        /\ step = MAX_STEPS
        /\ Len(Assistant) = MAX_STEPS
        /\ ~answer.printed
        /\ sent = SubSeq(messages, 1, LastAssistantPos - 1)
        /\ \A k \in (LastAssistantPos + 1)..Len(messages) :
               /\ IsTool(messages[k])
               /\ k > Len(sent)
        /\ pc = "done" => (stopCalls = 1 /\ process = 0)

C19_Witness ==
    /\ pc = "done"
    /\ caught = NoExc
    /\ llmCalls = MAX_STEPS
    /\ ~answer.printed
    /\ IsTool(Last(messages))
    /\ Len(sent) = Len(messages) - 2
    /\ stopCalls = 1

----------------------------------------------------------------------------
(* Invocations of the latest response the for loop has reached so far. *)
Reached ==
    IF pc = "tools" THEN idx - 1
    ELSE IF idx > Len(pending) THEN Len(pending) ELSE idx

(* Invocations named execute_shell_command the run has reached so far. *)
ProcessedShell ==
    Cardinality(UNION {
        { <<p, k>> : k \in { j \in DOMAIN messages[p].tool_calls :
                               /\ IsShell(messages[p].tool_calls[j])
                               /\ (p = LastAssistantPos => j <= Reached) } } :
        p \in AssistantPos })

(* C20, as stated: the exec requests written in a run are as many as the   *)
(* invocations named execute_shell_command it has processed.               *)
C20_ExecsEqualShellCalls ==
    (apiKey /\ pc = "done" /\ children # <<>> /\ children[1].ready) =>
        NumExec(children[1].stdin) = ProcessedShell

(* C20, amended: an invocation with another name changes nothing but the   *)
(* position of the for loop; the exec requests written never outnumber the *)
(* processed invocations named execute_shell_command, and are exactly as   *)
(* many as long as no invocation has failed.                               *)
C20_OnlyShellToolReachesChild ==
    [][/\ (pc = "tools" /\ ~IsShell(pending[idx])) =>
              /\ <<process, children, op, line, nread, exc, ret>>'
                     = <<process, children, op, line, nread, exc, ret>>
              /\ messages' = messages
              /\ <<llmCalls, sent, stopCalls, startCalls>>'
                     = <<llmCalls, sent, stopCalls, startCalls>>
              /\ idx' = idx + 1
              /\ pc' \in {"tools", "loop"}
       /\ (apiKey /\ children' # <<>>) =>
              /\ NumExec(children'[1].stdin) <= ProcessedShell'
              /\ ProcessedShell' <= NumExec(children'[1].stdin) + 1
              /\ Failure' = NoExc => NumExec(children'[1].stdin) = ProcessedShell'
              /\ Len(ToolMessages') <= NumExec(children'[1].stdin)]_vars

C20_Witness ==
    /\ pc = "loop"
    /\ llmCalls = 1
    /\ Len(pending) = 2
    /\ pending[1].name = "read_file"
    /\ IsShell(pending[2])
    /\ idx = 3
    /\ NumExec(children[1].stdin) = 1
    /\ Len(ToolMessages) = 1
    /\ ToolMessages[1].tool_call_id = pending[2].id

====
